---- MODULE Spec2Model ----
(***************************************************************************)
(* Model of setup.py of annogen: the module body run top to bottom as one  *)
(* process, with the calls it makes into distutils and Cython.             *)
(*                                                                         *)
(* A flag string is modelled as the sequence of its blank-separated flags; *)
(* an environment is a function from variable names to a flag sequence or  *)
(* Unset.  The calls into distutils and Cython are modelled by the         *)
(* outcomes the script can observe: they return, or they raise.            *)
(***************************************************************************)
EXTENDS Integers, Sequences, FiniteSets, TLC

(* ---------------- bounds ---------------- *)
MaxRuns == 2          \* how many times the build is run in a row
MaxPyx  == 2          \* how many annogen/<n>.pyx files may exist

(* ---------------- values ---------------- *)
None == "<none>"

\* a variable of the environment: absent, or present with a flag sequence
Unset      == [set |-> FALSE, flags |-> <<>>]
Val(flags) == [set |-> TRUE, flags |-> flags]

EnvVars == {"CFLAGS", "CC"}

\* values the invoking process may have given to CFLAGS and CC
CallerCFLAGS == {Unset, Val(<<>>), Val(<<"-g">>), Val(<<"-O0", "-g">>)}
CallerCC     == {Unset, Val(<<"g++">>)}

Platforms == {"linux", "darwin"}

\* files that may exist under the working directory
PyxFiles   == {[dir |-> "annogen", base |-> n, ext |-> "pyx"] : n \in 1..MaxPyx}
OtherFiles == {[dir |-> "annogen", base |-> 1, ext |-> "py"],
               [dir |-> "other",   base |-> 1, ext |-> "pyx"]}
FileUniverse == PyxFiles \cup OtherFiles

VARIABLES
    pc,          \* position in the module body
    env,         \* os.environ of the running process
    callerEnv,   \* environment of the invoking process (inherited at start)
    platform,    \* platform the build runs on
    fs,          \* files present under the working directory
    log,         \* statements of the module body executed so far in this run
    ext_modules, \* value of the cythonize(...) argument, empty before it is evaluated
    dist,        \* keyword arguments of each setup() call made in this run
    seen,        \* CFLAGS value read by each compiler invocation of this run
    raised,      \* exception that left the module body, None if none
    status,      \* exit status of the process, None while it runs
    run          \* number of the current run

vars == <<pc, env, callerEnv, platform, fs, log, ext_modules, dist, seen,
          raised, status, run>>

(* ---------------- the literals of the script ---------------- *)

\* line 6: '-O3 -Wall -std=c++11 -stdlib=libc++'
CFLAGS == <<"-O3", "-Wall", "-std=c++11", "-stdlib=libc++">>

\* line 6, were it os.environ.setdefault('CFLAGS', ...)
SetCFLAGS_SetDefault(e) ==
    IF e["CFLAGS"].set THEN e ELSE [e EXCEPT !["CFLAGS"] = Val(CFLAGS)]

\* line 6, were it os.environ.get('CFLAGS', '') + ' ' + ...
SetCFLAGS_Merge(e) ==
    [e EXCEPT !["CFLAGS"] = Val(e["CFLAGS"].flags \o CFLAGS)]

\* line 6, were the compiler selected along with the flags
SetCFLAGS_AlsoCC(e) ==
    [e EXCEPT !["CFLAGS"] = Val(CFLAGS), !["CC"] = Val(<<"clang++">>)]

\* line 6, were -stdlib=libc++ only given where clang is the default compiler
SetCFLAGS_PerPlatform(e) ==
    [e EXCEPT !["CFLAGS"] =
        IF platform = "darwin" THEN Val(CFLAGS) ELSE Val(SubSeq(CFLAGS, 1, 3))]

\* line 6: os.environ['CFLAGS'] = ...
SetCFLAGS(e) == [e EXCEPT !["CFLAGS"] = Val(CFLAGS)]

\* line 10, were the pattern "*/*.pyx"
Match_AnyDir(f) == f.ext = "pyx"

\* line 10: the pattern "annogen/*.pyx"
Match(f) == f.dir = "annogen" /\ f.ext = "pyx"

\* the files of a set as a list, in path order
RECURSIVE SortFiles(_)
SortFiles(S) ==
    IF S = {} THEN <<>>
    ELSE LET m == CHOOSE f \in S :
                    \A g \in S : <<f.dir, f.base>> = <<g.dir, g.base>>
                                 \/ (f.dir = g.dir /\ f.base < g.base)
                                 \/ (f.dir = "annogen" /\ g.dir = "other")
         IN <<m>> \o SortFiles(S \ {m})

\* files of the working directory the pattern resolves to
Glob(files) == SortFiles({f \in files : Match(f)})

\* lines 10-12: one extension module per matched file, language="c++"
Extension(f) == [source |-> f, language |-> "c++", include_path |-> <<"annogen/">>]

Extensions(files) == [i \in 1..Len(Glob(files)) |-> Extension(Glob(files)[i])]

\* lines 8-15, without install_requires
Declaration_NoRequires(mods) ==
    [name |-> "annogen", ext_modules |-> mods,
     packages |-> <<"annogen">>, install_requires |-> <<>>]

\* lines 8-15: the keyword arguments of setup(...)
Declaration(mods) ==
    [name |-> "annogen", ext_modules |-> mods,
     packages |-> <<"annogen">>, install_requires |-> <<"cython>=0.27">>]

\* the module body, statement by statement
Order == <<"import distutils", "import os", "import Cython",
           "assign", "cythonize", "setup">>


(* ---------------- initial state ---------------- *)

Init ==
    /\ callerEnv \in {[CFLAGS |-> c, CC |-> k] : c \in CallerCFLAGS, k \in CallerCC}
    /\ env = callerEnv
    /\ platform \in Platforms
    /\ fs \in SUBSET FileUniverse
    /\ pc = "import distutils"
    /\ log = <<>>
    /\ ext_modules = <<>>
    /\ dist = <<>>
    /\ seen = <<>>
    /\ raised = None
    /\ status = None
    /\ run = 1

(* ---------------- the statements of the module body ---------------- *)

\* an exception nothing in the script catches: the interpreter exits with 1
Raise(stmt, exc) ==
    /\ log' = Append(log, stmt)
    /\ pc' = "failed"
    /\ raised' = exc
    /\ status' = "1"

\* the statement completes and control falls to the next one
Fall(stmt, next) ==
    /\ log' = Append(log, stmt)
    /\ pc' = next
    /\ UNCHANGED <<raised, status>>

\* line 1: from distutils.core import setup
ImportDistutils ==
    /\ pc = "import distutils"
    /\ \/ Fall("import distutils", "import os")
       \/ Raise("import distutils", "ImportError")
    /\ UNCHANGED <<env, callerEnv, platform, fs, ext_modules, dist, seen, run>>

\* lines 2 and 6 swapped with line 4: the flags set right after import os
ImportOs_ThenAssign ==
    /\ pc = "import os"
    /\ Fall("import os", "import Cython")
    /\ env' = SetCFLAGS(env)
    /\ UNCHANGED <<callerEnv, platform, fs, ext_modules, dist, seen, run>>

\* line 2: import os
ImportOs ==
    /\ pc = "import os"
    /\ Fall("import os", "import Cython")
    /\ UNCHANGED <<env, callerEnv, platform, fs, ext_modules, dist, seen, run>>

\* line 4: from Cython.Build import cythonize
ImportCython ==
    /\ pc = "import Cython"
    /\ \/ Fall("import Cython", "assign")
       \/ Raise("import Cython", "ImportError")
    /\ UNCHANGED <<env, callerEnv, platform, fs, ext_modules, dist, seen, run>>

\* line 6: os.environ['CFLAGS'] = '-O3 -Wall -std=c++11 -stdlib=libc++'
AssignCFLAGS ==
    /\ pc = "assign"
    /\ Fall("assign", "cythonize")
    /\ env' = SetCFLAGS(env)
    /\ UNCHANGED <<callerEnv, platform, fs, ext_modules, dist, seen, run>>

\* lines 10-12 wrapped in try/except that falls back to no extension modules
Cythonize_Swallow ==
    /\ pc = "cythonize"
    /\ \/ /\ Fall("cythonize", "setup")
          /\ ext_modules' = Extensions(fs)
       \/ /\ Fall("cythonize", "setup")
          /\ ext_modules' = <<>>
    /\ UNCHANGED <<env, callerEnv, platform, fs, dist, seen, run>>

\* lines 10-12: cythonize("annogen/*.pyx", include_path=["annogen/"], language="c++")
\* evaluated as an argument of setup(...), before setup is called.  It returns
\* the extension modules of the matched files, or raises: CompileError when a
\* file does not translate, ValueError when it rejects an empty match.
Cythonize ==
    /\ pc = "cythonize"
    /\ \/ /\ Fall("cythonize", "setup")
          /\ ext_modules' = Extensions(fs)
       \/ /\ Glob(fs) # <<>>
          /\ Raise("cythonize", "CompileError")
          /\ UNCHANGED ext_modules
       \/ /\ Glob(fs) = <<>>
          /\ Raise("cythonize", "ValueError")
          /\ UNCHANGED ext_modules
    /\ UNCHANGED <<env, callerEnv, platform, fs, dist, seen, run>>

\* lines 8-15: setup(name=..., ext_modules=..., packages=..., install_requires=...)
\* The build backend compiles the extension modules in order, each compiler
\* invocation reading CFLAGS from the process environment; the first k
\* succeed and, when k is not all of them, the next one fails and the error
\* leaves setup().
Setup ==
    /\ pc = "setup"
    /\ dist' = Append(dist, Declaration(ext_modules))
    /\ \E k \in 0..Len(ext_modules) :
          IF k = Len(ext_modules)
          THEN /\ seen' = [i \in 1..k |-> env["CFLAGS"]]
               /\ log' = Append(log, "setup")
               /\ pc' = "done"
               /\ status' = "0"
               /\ UNCHANGED raised
          ELSE /\ seen' = [i \in 1..(k + 1) |-> env["CFLAGS"]]
               /\ Raise("setup", "CompileError")
    /\ UNCHANGED <<env, callerEnv, platform, fs, ext_modules, run>>

\* the build is run again: a new process, which inherits the environment of
\* the invoking process and none of the state of the process that exited
Rerun ==
    /\ pc \in {"done", "failed"}
    /\ run < MaxRuns
    /\ run' = run + 1
    /\ env' = callerEnv
    /\ pc' = "import distutils"
    /\ log' = <<>>
    /\ ext_modules' = <<>>
    /\ dist' = <<>>
    /\ seen' = <<>>
    /\ raised' = None
    /\ status' = None
    /\ UNCHANGED <<callerEnv, platform, fs>>

Next ==
    \/ ImportDistutils
    \/ ImportOs
    \/ ImportCython
    \/ AssignCFLAGS
    \/ Cythonize
    \/ Setup
    \/ Rerun

Spec == Init /\ [][Next]_vars

(* ---------------- helpers of the properties ---------------- *)

IsPrefix(s, t) == Len(s) <= Len(t) /\ \A i \in 1..Len(s) : s[i] = t[i]

Executed(stmt) == \E i \in 1..Len(log) : log[i] = stmt

Tokens(v) == {v.flags[i] : i \in 1..Len(v.flags)}

TypeOK ==
    /\ pc \in {"import distutils", "import os", "import Cython", "assign",
               "cythonize", "setup", "done", "failed"}
    /\ run \in 1..MaxRuns
    /\ status \in {None, "0", "1"}
    /\ fs \subseteq FileUniverse
    /\ platform \in Platforms


Last(s) == s[Len(s)]

\* the flag string of line 6, flag by flag, as the build is to see it
ExpectedFlags == Val(<<"-O3", "-Wall", "-std=c++11", "-stdlib=libc++">>)

\* the files of the working directory that are annogen/*.pyx
PyxPresent == {f \in fs : f.dir = "annogen" /\ f.ext = "pyx"}

(* ---------------- properties ---------------- *)

\* C1: wherever the compiler toolchain can be invoked (while cythonize(...) is
\* evaluated, while setup(...) runs, and at each compiler invocation) CFLAGS
\* holds '-O3 -Wall -std=c++11 -stdlib=libc++'; the assignment precedes
\* cythonize and setup, and the value is never changed or removed afterwards.
C1_FlagsPresentForToolchain ==
    /\ pc \in {"cythonize", "setup"} => env["CFLAGS"] = ExpectedFlags
    /\ \A i \in 1..Len(seen) : seen[i] = ExpectedFlags
    /\ Executed("cythonize") => Executed("assign")
    /\ Executed("assign") => env["CFLAGS"] = ExpectedFlags

\* a finished build that called the compiler twice, started with other flags
C1_Witness ==
    /\ pc = "done"
    /\ Len(seen) = 2
    /\ callerEnv["CFLAGS"] = Val(<<"-g">>)

\* C4: a failure of the toolchain is not handled: the run ends failed with a
\* non-zero exit status and the exception the tool raised, no statement runs
\* after the failing one or twice, and a run that gets past cythonize or ends
\* successfully has lost no matched file on the way.
C4_FailurePropagates ==
    /\ pc = "failed" =>
          /\ status = "1"
          /\ log # <<>> /\ IsPrefix(log, Order)
          /\ Last(log) = "cythonize" =>
                /\ raised \in {"CompileError", "ValueError"}
                /\ dist = <<>> /\ seen = <<>>
          /\ Last(log) = "setup" => raised = "CompileError"
    /\ (Executed("cythonize") /\ pc # "failed") =>
          Len(ext_modules) = Cardinality(PyxPresent)
    /\ pc = "done" =>
          /\ status = "0" /\ raised = None
          /\ Len(seen) = Cardinality(PyxPresent)

\* the compiler fails on the second of two matched files
C4_Witness ==
    /\ pc = "failed"
    /\ Last(log) = "setup"
    /\ Len(seen) = 2
    /\ Cardinality(PyxPresent) = 2

\* C5: when no file matches annogen/*.pyx the run ends either failed or
\* successfully with an empty extension-module set; no extension module is
\* ever declared or compiled.
C5_NoMatchOutcome ==
    PyxPresent = {} =>
        /\ ext_modules = <<>>
        /\ seen = <<>>
        /\ \A i \in 1..Len(dist) : dist[i].ext_modules = <<>>
        /\ pc \in {"done", "failed"} =>
              \/ pc = "failed" /\ status = "1" /\ raised # None /\ dist = <<>>
              \/ pc = "done" /\ status = "0" /\ Len(dist) = 1

\* a successful build in a directory with files, none of which matches
C5_Witness ==
    /\ PyxPresent = {}
    /\ Cardinality(fs) = 2
    /\ pc = "done"

\* C6: what setup() receives is the name 'annogen', the packages ['annogen']
\* and the dependencies ['cython>=0.27'], together with the extension modules
\* cythonize returned; it receives it once, when the setup statement runs.
C6_DeclarationReceived ==
    /\ \A i \in 1..Len(dist) :
          /\ dist[i].name = "annogen"
          /\ dist[i].packages = <<"annogen">>
          /\ dist[i].install_requires = <<"cython>=0.27">>
          /\ dist[i].ext_modules = ext_modules
    /\ Len(dist) = (IF Executed("setup") THEN 1 ELSE 0)

\* setup() was called with one extension module
C6_Witness ==
    /\ pc = "done"
    /\ Len(dist) = 1
    /\ Len(dist[1].ext_modules) = 1

C8_ConstantFlags ==
    [][pc = "assign" =>
          /\ pc' = "cythonize"
          /\ raised' = None
          /\ env'["CFLAGS"] = ExpectedFlags]_vars

\* the assignment has run on linux with no file to build
C8_Witness ==
    /\ Executed("assign")
    /\ platform = "linux"
    /\ PyxPresent = {}
    /\ callerEnv["CFLAGS"].set

\* C9: whatever CFLAGS the caller had set (or not set), each compiler
\* invocation reads exactly the flags of line 6, none of the caller's.
C9_CallerFlagsDiscarded ==
    \A i \in 1..Len(seen) :
        /\ seen[i].set
        /\ seen[i].flags = <<"-O3", "-Wall", "-std=c++11", "-stdlib=libc++">>
        /\ Tokens(seen[i]) \cap Tokens(callerEnv["CFLAGS"]) = {}

\* the compiler ran for a caller that had set CFLAGS='-O0 -g'
C9_Witness ==
    /\ seen # <<>>
    /\ callerEnv["CFLAGS"] = Val(<<"-O0", "-g">>)

\* C10: the statements run in the order of the file; a failed Cython import
\* leaves the environment as inherited and setup() uncalled; a failed
\* cythonize leaves CFLAGS set and setup() uncalled; setup() is called only
\* after every earlier statement completed.
C10_FixedOrder ==
    /\ IsPrefix(log, Order)
    /\ pc \notin {"done", "failed"} => pc = Order[Len(log) + 1]
    /\ (pc = "failed" /\ Last(log) = "import Cython") =>
          env = callerEnv /\ dist = <<>>
    /\ (pc = "failed" /\ Last(log) = "cythonize") =>
          env["CFLAGS"] = ExpectedFlags /\ dist = <<>>
    /\ dist # <<>> => log = Order /\ dist[1].name = "annogen"

\* the Cython import failed
C10_Witness ==
    /\ pc = "failed"
    /\ Last(log) = "import Cython"
    /\ raised = "ImportError"

====
